---- MODULE Spec2Model ----
(***************************************************************************)
(* Model of net-dog (src/netdog.py): the monitoring loop, the manual       *)
(* refresh workers, the data queue, the UI poll that drains it, the        *)
(* 24-hour history and the overall status rule (Spec, SpecClassify); one   *)
(* call of collect_network_data (SpecCollect) and of get_ping_latency      *)
(* (SpecPing); the configuration, its file and its dialog (SpecStore).     *)
(*                                                                         *)
(* Time is in seconds.  An optional value (None in the source) is the      *)
(* empty sequence, a present value v is <<v>>.                             *)
(***************************************************************************)
EXTENDS Integers, Sequences, FiniteSets, TLC

\* ---------------------------------------------------------------- bounds
MaxTicks == 1
MaxCollects == 2
MaxManual == 1
MaxTargets == 3
MaxHistory == 3
MaxPending == 1

\* ------------------------------------------------------ program constants
HistoryWindow == 86400
IpCheckInterval == 300
BackoffSeconds == 5
PingPoorAbove == 100
SignalPoorBelow == -70
DefaultRefreshInterval == 5

None == <<>>
Some(v) == <<v>>
Val(o) == o[1]

\* Clock advances the model can take: just over the history window, which
\* also outlasts the public-IP period and any sleep of the loop.
Jumps == {HistoryWindow + 1}

\* refresh_interval values a persisted configuration file can hold
RefreshIntervals == {-1, DefaultRefreshInterval}

\* Outcomes of the probes
\* (connection type, averaged ping, signal) as one round of probes finds them
ProbeResults ==
  {[connection_type |-> "WiFi", ping |-> Some(30), signal |-> Some(-80)]}
IpResults == {"None", "203.0.113.7"}

LoopId == 0
Workers == 1..MaxManual
Threads == {LoopId} \cup Workers

VARIABLES
  now,            \* wall clock (time.time() / datetime.now())
  ticks,          \* number of clock advances taken so far
  config,         \* self.config
  is_monitoring,  \* self.is_monitoring
  data_queue,     \* self.data_queue (queue.Queue, FIFO, unbounded)
  last_ip_check,  \* self._last_ip_check; None while the attribute is missing
  thr,            \* per thread: position and the data dict under construction
  wakeAt,         \* end of the monitoring thread's current time.sleep
  uiPc,           \* position of the UI thread
  latest_data,    \* update_ui's local latest_data
  history,        \* self.history: three parallel lists
  shown,          \* the StringVars and the status label/indicator
  hist_src,       \* for each history index, the Sample it was appended from
  collects,       \* collect_network_data calls begun
  pubCount,       \* data_queue.put calls completed
  taken,          \* data_queue.get_nowait calls completed
  iterPublished,  \* the current loop iteration has put its Sample
  pubsAfterStop,  \* puts the monitoring loop has made since on_closing ran
  stopPc,         \* the monitoring loop's position when on_closing ran
  lastOkFetch,    \* time of the last successful public-IP fetch, if any
  evicted,        \* some update_history call has popped an entry
  mDone,          \* per worker: collects and puts it has made
  clsIn,          \* input of the status rule
  clsOut,         \* its result
  colIn,          \* probe outcomes one collect_network_data call meets
  colOut,         \* what that call returns
  pingIn,         \* per ping target, the latency its ping measured, if any
  pingOut,        \* what get_ping_latency returns for them
  cfgMem,         \* self.config as a dict: a function from its keys
  cfgFile,        \* ~/.network_diagnostics_config.json; None while absent
  cfgPc,          \* constructed (before load_config) or running
  cfgLog,         \* the last configuration operation and what it met
  trend,          \* what update_trend_graph last drew; None before any call
  rd,             \* one collection's reads of self.config
  published,      \* the Sample of the latest data_queue.put, if any
  trendIn         \* the history and the canvas one update_trend_graph is given

vars == <<now, ticks, config, is_monitoring, data_queue, last_ip_check, thr,
          wakeAt, uiPc, latest_data, history, shown, hist_src, collects,
          pubCount, taken, iterPublished, pubsAfterStop, stopPc, lastOkFetch, evicted, mDone, clsIn, clsOut,
          colIn, colOut, pingIn, pingOut, cfgMem, cfgFile, cfgPc, cfgLog,
          trend, rd, published, trendIn>>

\* the variables of the collector, ping and configuration specifications
partVars == <<colIn, colOut, pingIn, pingOut, cfgMem, cfgFile, cfgPc, cfgLog,
             rd, published, trendIn>>

\* ------------------------------------------------------------- the Sample
EmptyData ==
  [error |-> FALSE, connection_type |-> "absent", ping |-> None,
   signal |-> None, public_ip |-> "absent", timestamp |-> 0, id |-> 0]

\* ------------------------------------------------- calculate_overall_status
\* the rule with the ping threshold made inclusive
calculate_overall_status_ge(data) ==
  IF data.error THEN "poor"
  ELSE
    LET ping == data.ping
        signal == data.signal
        total_conditions == (IF ping # None THEN 1 ELSE 0)
                            + (IF signal # None THEN 1 ELSE 0)
        poor_conditions ==
            (IF ping # None /\ Val(ping) >= PingPoorAbove THEN 1 ELSE 0)
          + (IF signal # None /\ Val(signal) < SignalPoorBelow THEN 1 ELSE 0)
    IN  IF total_conditions = 0 THEN "fair"
        ELSE IF poor_conditions = 0 THEN "good"
        ELSE IF poor_conditions < total_conditions THEN "fair"
        ELSE "poor"

calculate_overall_status(data) ==
  IF data.error THEN "poor"
  ELSE
    LET ping == data.ping
        signal == data.signal
        total_conditions == (IF ping # None THEN 1 ELSE 0)
                            + (IF signal # None THEN 1 ELSE 0)
        poor_conditions ==
            (IF ping # None /\ Val(ping) > PingPoorAbove THEN 1 ELSE 0)
          + (IF signal # None /\ Val(signal) < SignalPoorBelow THEN 1 ELSE 0)
    IN  IF total_conditions = 0 THEN "fair"
        ELSE IF poor_conditions = 0 THEN "good"
        ELSE IF poor_conditions < total_conditions THEN "fair"
        ELSE "poor"

\* ------------------------------------------------------------ update_display
Title(status) ==
  CASE status = "good" -> "Good"
    [] status = "fair" -> "Fair"
    [] status = "poor" -> "Poor"

StatusColor(status) ==
  CASE status = "good" -> "green"
    [] status = "fair" -> "orange"
    [] status = "poor" -> "red"

\* update_display without the return of line 613: an error Sample goes on
\* through the field updates
update_display_without_return(disp, data) ==
  LET overall_status == calculate_overall_status(data)
  IN [connection_type |->
        IF data.connection_type # "absent" THEN data.connection_type
        ELSE disp.connection_type,
      public_ip |->
        IF data.public_ip # "absent" THEN data.public_ip
        ELSE disp.public_ip,
      ping_latency |->
        IF data.ping # None THEN ToString(Val(data.ping)) \o " ms"
        ELSE "Timeout",
      signal_strength |->
        IF data.signal # None THEN ToString(Val(data.signal)) \o " dBm"
        ELSE IF data.connection_type = "WiFi" THEN "No signal data"
        ELSE "Not WiFi",
      status_indicator |->
        IF data.error THEN "red" ELSE StatusColor(overall_status),
      status_label |->
        IF data.error THEN "Error collecting data"
        ELSE "Status: " \o Title(overall_status)]

update_display(disp, data) ==
  IF data.error
  THEN [disp EXCEPT !.status_label = "Error collecting data",
                    !.status_indicator = "red"]
  ELSE LET overall_status == calculate_overall_status(data)
       IN [connection_type |->
             IF data.connection_type # "absent" THEN data.connection_type
             ELSE disp.connection_type,
           public_ip |->
             IF data.public_ip # "absent" THEN data.public_ip
             ELSE disp.public_ip,
           ping_latency |->
             IF data.ping # None THEN ToString(Val(data.ping)) \o " ms"
             ELSE "Timeout",
           signal_strength |->
             IF data.signal # None THEN ToString(Val(data.signal)) \o " dBm"
             ELSE IF data.connection_type = "WiFi" THEN "No signal data"
             ELSE "Not WiFi",
           status_indicator |-> StatusColor(overall_status),
           status_label |-> "Status: " \o Title(overall_status)]

\* ------------------------------------------------------------ update_history
RECURSIVE EvictCount(_, _)
\* how many entries the while loop pops: the leading run of timestamps
\* strictly below the cutoff
EvictCount(timestamps, cutoff) ==
  IF timestamps # <<>> /\ Head(timestamps) < cutoff
  THEN 1 + EvictCount(Tail(timestamps), cutoff)
  ELSE 0

Drop(s, n) == SubSeq(s, n + 1, Len(s))

\* update_history with the pop of signal_values forgotten
update_history_unsynced(h, data, clock) ==
  LET timestamps == Append(h.timestamps, data.timestamp)
      ping_values == Append(h.ping_values, data.ping)
      signal_values == Append(h.signal_values, data.signal)
      cutoff == clock - HistoryWindow
      n == EvictCount(timestamps, cutoff)
  IN  [timestamps |-> Drop(timestamps, n),
       ping_values |-> Drop(ping_values, n),
       signal_values |-> signal_values]

update_history(h, data, clock) ==
  LET timestamps == Append(h.timestamps, data.timestamp)
      ping_values == Append(h.ping_values, data.ping)
      signal_values == Append(h.signal_values, data.signal)
      cutoff == clock - HistoryWindow
      n == EvictCount(timestamps, cutoff)
  IN  [timestamps |-> Drop(timestamps, n),
       ping_values |-> Drop(ping_values, n),
       signal_values |-> Drop(signal_values, n)]

\* the Samples behind the retained entries, evicted like the timestamps
HistorySources(src, h, data, clock) ==
  LET all == Append(src, [timestamp |-> data.timestamp, ping |-> data.ping,
                          signal |-> data.signal])
      n == EvictCount(Append(h.timestamps, data.timestamp),
                      clock - HistoryWindow)
  IN  Drop(all, n)

\* -------------------------------------------------------------- dicts
\* A Python dict is a function from its keys; dict.update(e) takes e's
\* value for every key of e and keeps the rest.
EmptyDict == [k \in {} |-> 0]
DictUpdateKeepingOld(d, e) ==
  [k \in DOMAIN d \cup DOMAIN e |-> IF k \in DOMAIN d THEN d[k] ELSE e[k]]

DictUpdate(d, e) ==
  [k \in DOMAIN d \cup DOMAIN e |-> IF k \in DOMAIN e THEN e[k] ELSE d[k]]

\* self.config as setup_variables builds it.  Opacity is in tenths (9 is
\* 0.9), intervals and timeouts in seconds.
ConfigDefaults ==
  [ping_targets |-> <<"8.8.8.8", "1.1.1.1">>,
   refresh_interval |-> DefaultRefreshInterval,
   ping_timeout |-> 3,
   theme |-> "light",
   opacity |-> 9,
   auto_start |-> FALSE,
   view_mode |-> "compact"]

\* What a call returns, or the dict it had built when it raised
Returned(v) == [raised |-> FALSE, value |-> v]
Raised(partial) == [raised |-> TRUE, value |-> partial]

\* The text of a JSON object: per key, the kind of JSON value and the value.
\* A file that does not parse (cut short, or not JSON at all) is not valid.
JsonKind(k) ==
  CASE k = "ping_targets" -> "array"
    [] k \in {"theme", "view_mode"} -> "string"
    [] k = "auto_start" -> "boolean"
    [] OTHER -> "number"

JsonDumpEntityOnly(d) ==
  [valid |-> TRUE,
   text |-> [k \in DOMAIN d \cap DOMAIN ConfigDefaults |->
               <<JsonKind(k), d[k]>>]]

JsonDump(d) ==
  [valid |-> TRUE, text |-> [k \in DOMAIN d |-> <<JsonKind(k), d[k]>>]]

JsonLoad(content) ==
  IF content.valid
  THEN Returned([k \in DOMAIN content.text |-> content.text[k][2]])
  ELSE Raised(EmptyDict)

Truncated == [valid |-> FALSE, text |-> EmptyDict]

\* save_config: open(config_file, 'w') can fail and leave the file as it
\* was; once it has succeeded the file exists and is empty, and a failure of
\* the write leaves it cut short.
SaveOutcomes == {"ok", "open_failed", "write_failed"}

save_config(mem, file, outcome) ==
  CASE outcome = "ok" -> Some(JsonDump(mem))
    [] outcome = "open_failed" -> file
    [] OTHER -> Some(Truncated)

apply_config_saving_first(mem, file, new_config, outcome) ==
  [config |-> DictUpdate(mem, new_config),
   file |-> save_config(mem, file, outcome)]

apply_config(mem, file, new_config, outcome) ==
  LET merged == DictUpdate(mem, new_config)
  IN  [config |-> merged, file |-> save_config(merged, file, outcome)]

\* ------------------------------------------------------ update_trend_graph
\* The canvas as winfo_width / winfo_height report it: 1 by 1 while the
\* detailed view is not shown, its real size once it is
UnmappedCanvas == [width |-> 1, height |-> 1]
MappedCanvas == [width |-> 220, height |-> 60]
CanvasSizes == {UnmappedCanvas, MappedCanvas}

ClearedCanvas == [text |-> "", line |-> <<>>, labels |-> <<>>]

\* ping_data: the history's ping values that are not None, in order
RECURSIVE PingData(_)
PingData(values) ==
  IF values = <<>> THEN <<>>
  ELSE IF Head(values) = None THEN PingData(Tail(values))
  ELSE <<Val(Head(values))>> \o PingData(Tail(values))

RECURSIVE MaxOf(_)
MaxOf(xs) ==
  IF Len(xs) = 1 THEN xs[1]
  ELSE LET m == MaxOf(Tail(xs)) IN IF xs[1] >= m THEN xs[1] ELSE m

RECURSIVE MinOf(_)
MinOf(xs) ==
  IF Len(xs) = 1 THEN xs[1]
  ELSE LET m == MinOf(Tail(xs)) IN IF xs[1] <= m THEN xs[1] ELSE m

\* lines 772-773 left out
WidenedMaxNever(max_ping, min_ping) == max_ping

\* lines 772-773
WidenedMax(max_ping, min_ping) ==
  IF max_ping = min_ping THEN max_ping + 1 ELSE max_ping

\* A point of the trend line before it is scaled to pixels: how far along
\* the width and how far up the height, each as a fraction num / den.  A
\* division by zero raises ZeroDivisionError, which leaves the canvas as
\* canvas.delete("all") left it.
update_trend_graph(h, canvas) ==
  IF Len(h.ping_values) < 2
  THEN Returned([ClearedCanvas EXCEPT !.text = "Collecting data..."])
  ELSE
    LET ping_data == PingData(h.ping_values)
        n == Len(ping_data)
        min_ping == MinOf(ping_data)
        max_ping == WidenedMax(MaxOf(ping_data), min_ping)
    IN  IF n < 2 THEN Returned(ClearedCanvas)
        ELSE IF ~(canvas.width > 1 /\ canvas.height > 1)
        THEN Returned(ClearedCanvas)
        ELSE IF n - 1 = 0 \/ max_ping - min_ping = 0
        THEN Raised(ClearedCanvas)
        ELSE Returned(
               [text |-> "",
                line |-> [i \in 1..n |->
                            [x |-> [num |-> i - 1, den |-> n - 1],
                             y |-> [num |-> ping_data[i] - min_ping,
                                    den |-> max_ping - min_ping]]],
                labels |-> <<min_ping, max_ping>>])

\* ---------------------------------------------- one collection's config reads
\* No publish is being followed on its way to the history
NoPublish == [owed |-> 0, reached |-> FALSE]

\* No collection in flight: nothing of self.config has been read
RestReader ==
  [pc |-> "idle", targets |-> <<>>, next |-> 1, timeouts |-> <<>>,
   interval |-> None, seen |-> {}]

\* cfgLog before any configuration operation, given the file found
StartLog(file) ==
  [op |-> "none", save |-> "none", applied |-> FALSE, failed |-> FALSE,
   startAbsent |-> (file = None)]

\* The collector, ping and configuration parts at rest
RestParts ==
  /\ colIn = None
  /\ colOut = None
  /\ pingIn = <<>>
  /\ pingOut = None
  /\ cfgMem = ConfigDefaults
  /\ cfgFile = None
  /\ cfgPc = "running"
  /\ cfgLog = StartLog(None)
  /\ rd = RestReader
  /\ published = NoPublish
  /\ trendIn = None

\* ----------------------------------------------------------------- Init
InitialDisplay ==
  [connection_type |-> "Unknown", public_ip |-> "--",
   ping_latency |-> "-- ms", signal_strength |-> "-- dBm",
   status_indicator |-> "gray", status_label |-> "Initializing..."]

IdleThread == [pc |-> "idle", data |-> EmptyData]

InitProgram ==
  /\ now = 0
  /\ ticks = 0
  /\ config \in [refresh_interval : RefreshIntervals]
  /\ is_monitoring = TRUE
  /\ data_queue = <<>>
  /\ last_ip_check = None
  /\ thr = [t \in Threads |->
              IF t = LoopId THEN [pc |-> "check", data |-> EmptyData]
              ELSE IdleThread]
  /\ wakeAt = 0
  /\ uiPc = "idle"
  /\ latest_data = None
  /\ history = [timestamps |-> <<>>, ping_values |-> <<>>,
                signal_values |-> <<>>]
  /\ shown = InitialDisplay
  /\ hist_src = <<>>
  /\ collects = 0
  /\ pubCount = 0
  /\ taken = 0
  /\ iterPublished = FALSE
  /\ pubsAfterStop = 0
  /\ stopPc = "running"
  /\ lastOkFetch = None
  /\ evicted = FALSE
  /\ mDone = [w \in Workers |-> [collects |-> 0, puts |-> 0]]
  /\ trend = None

Init ==
  /\ InitProgram
  /\ clsIn = EmptyData
  /\ clsOut = "unset"
  /\ RestParts

\* The monitoring program at rest, for the specifications of its parts
RestProgram ==
  /\ InitProgram
  /\ config = [refresh_interval |-> DefaultRefreshInterval]
  /\ clsIn = EmptyData
  /\ clsOut = "unset"

programVars == <<now, ticks, config, is_monitoring, data_queue, last_ip_check,
                 thr, wakeAt, uiPc, latest_data, history, shown, hist_src,
                 collects, pubCount, taken, iterPublished, pubsAfterStop,
                 stopPc, lastOkFetch, evicted, mDone, trend>>

\* ------------------------------------------------------------------ clock
Tick ==
  /\ ticks < MaxTicks
  /\ \E d \in Jumps : now' = now + d
  /\ ticks' = ticks + 1
  /\ UNCHANGED <<config, is_monitoring, data_queue, last_ip_check, thr,
                 wakeAt, uiPc, latest_data, history, shown, hist_src,
                 collects, pubCount, taken, iterPublished, pubsAfterStop,
                 stopPc, lastOkFetch, evicted, mDone, clsIn, clsOut, trend, partVars>>

\* ------------------------------------------------- collect_network_data
\* Lines 417-430: the interface, ping and signal probes (each catches its
\* own faults), then the test that decides whether the public IP is queried.
\* When it is not, line 435 stamps the Sample and the call returns.  An
\* unexpected fault anywhere in the try block leads to the except branch
\* (lines 437-439), which returns an error Sample stamped there.
IpCheckDue(last, clock) == last = None \/ clock - Val(last) > IpCheckInterval

CollectProbes(t) ==
  /\ thr[t].pc = "probe"
  /\ \/ \E r \in ProbeResults :
          LET probed == [EmptyData EXCEPT
                           !.connection_type = r.connection_type,
                           !.ping = r.ping, !.signal = r.signal]
          IN  thr' = [thr EXCEPT
                        ![t] = IF IpCheckDue(last_ip_check, now)
                               THEN [pc |-> "ipquery", data |-> probed]
                               ELSE [pc |-> "put",
                                     data |-> [probed EXCEPT
                                                 !.timestamp = now]]]
     \/ thr' = [thr EXCEPT
                  ![t] = [pc |-> "put",
                          data |-> [EmptyData EXCEPT !.error = TRUE,
                                                     !.timestamp = now]]]
  /\ UNCHANGED <<now, ticks, config, is_monitoring, data_queue, last_ip_check,
                 wakeAt, uiPc, latest_data, history, shown, hist_src,
                 collects, pubCount, taken, iterPublished, pubsAfterStop,
                 stopPc, lastOkFetch, evicted, mDone, clsIn, clsOut, trend, partVars>>

\* get_public_ip: the text of a 200 response, None otherwise
get_public_ip(result) == result

\* Lines 431-435: the query, the time of the check is recorded, the Sample
\* is stamped and the call returns
CollectPublicIp(t) ==
  /\ thr[t].pc = "ipquery"
  /\ \E r \in IpResults :
       /\ thr' = [thr EXCEPT ![t].data.public_ip = get_public_ip(r),
                             ![t].data.timestamp = now,
                             ![t].pc = "put"]
       /\ lastOkFetch' = IF r # "None" THEN Some(now) ELSE lastOkFetch
  /\ last_ip_check' = Some(now)
  /\ UNCHANGED <<now, ticks, config, is_monitoring, data_queue, wakeAt, uiPc,
                 latest_data, history, shown, hist_src, collects, pubCount,
                 taken, iterPublished, pubsAfterStop, stopPc, evicted, mDone,
                 clsIn, clsOut, trend, partVars>>

\* a single-slot channel: the new item replaces what is pending
QueuePutReplace(q, item) == <<item>>

QueuePut(q, item) == Append(q, item)

\* --------------------------------------------------------- monitoring_loop
\* Line 403: the while test
\* a loop that never looks at the flag
LoopTopIgnoringFlag(flag) == "probe"

LoopTop(flag) == IF flag THEN "probe" ELSE "exit"

LoopCheck ==
  /\ thr[LoopId].pc = "check"
  /\ LoopTop(is_monitoring) = "probe" => collects < MaxCollects
  /\ thr' = [thr EXCEPT ![LoopId].pc = LoopTop(is_monitoring)]
  /\ collects' = IF LoopTop(is_monitoring) = "probe" THEN collects + 1
                 ELSE collects
  /\ iterPublished' = FALSE
  /\ UNCHANGED <<now, ticks, config, is_monitoring, data_queue, last_ip_check,
                 wakeAt, uiPc, latest_data, history, shown, hist_src,
                 pubCount, taken, pubsAfterStop, stopPc, lastOkFetch,
                 evicted, mDone, clsIn, clsOut, trend, partVars>>

\* Line 407
LoopPut ==
  /\ thr[LoopId].pc = "put"
  /\ data_queue' = QueuePut(data_queue,
                            [thr[LoopId].data EXCEPT !.id = pubCount + 1])
  /\ pubCount' = pubCount + 1
  /\ pubsAfterStop' = IF stopPc # "running" THEN pubsAfterStop + 1
                      ELSE pubsAfterStop
  /\ iterPublished' = TRUE
  /\ thr' = [thr EXCEPT ![LoopId].pc = "sleep", ![LoopId].data = EmptyData]
  /\ UNCHANGED <<taken, now, ticks, config, is_monitoring, last_ip_check, wakeAt,
                 uiPc, latest_data, history, shown, hist_src, collects,
                 stopPc, lastOkFetch, evicted, mDone, clsIn,
                 clsOut, trend, partVars>>

\* Lines 410-413: time.sleep raises ValueError on a negative length; the
\* except branch then sleeps 5 seconds.
\* a backoff that sleeps the configured interval
SleepOutcomeIntervalBackoff(interval, clock) ==
  IF interval < 0
  THEN [pc |-> "backoff", wake |-> clock + interval]
  ELSE [pc |-> "sleeping", wake |-> clock + interval]

SleepOutcome(interval, clock) ==
  IF interval < 0
  THEN [pc |-> "backoff", wake |-> clock + BackoffSeconds]
  ELSE [pc |-> "sleeping", wake |-> clock + interval]

LoopSleep ==
  /\ thr[LoopId].pc = "sleep"
  /\ LET o == SleepOutcome(config.refresh_interval, now)
     IN /\ thr' = [thr EXCEPT ![LoopId].pc = o.pc]
        /\ wakeAt' = o.wake
  /\ UNCHANGED <<now, ticks, config, is_monitoring, data_queue, last_ip_check,
                 uiPc, latest_data, history, shown, hist_src, collects,
                 pubCount, taken, iterPublished, pubsAfterStop, stopPc, lastOkFetch, evicted, mDone, clsIn, clsOut, trend, partVars>>

\* the sleep (interval or backoff) is over
LoopWake ==
  /\ thr[LoopId].pc \in {"sleeping", "backoff"}
  /\ now >= wakeAt
  /\ thr' = [thr EXCEPT ![LoopId].pc = "check"]
  /\ wakeAt' = 0
  /\ UNCHANGED <<now, ticks, config, is_monitoring, data_queue, last_ip_check,
                 uiPc, latest_data, history, shown, hist_src,
                 collects, pubCount, taken, iterPublished, pubsAfterStop,
                 stopPc, lastOkFetch, evicted, mDone, clsIn, clsOut, trend, partVars>>

\* ------------------------------------------------------------ manual_refresh
\* Lines 792-795, a UI callback: it runs between two other callbacks.  The
\* new thread takes the lowest unused worker slot.
ManualRefresh(w) ==
  /\ uiPc = "idle"
  /\ thr[w].pc = "idle"
  /\ \A v \in Workers : v < w => thr[v].pc # "idle"
  /\ collects < MaxCollects
  /\ shown' = [shown EXCEPT !.status_label = "Refreshing..."]
  /\ thr' = [thr EXCEPT ![w].pc = "probe"]
  /\ collects' = collects + 1
  /\ mDone' = [mDone EXCEPT ![w].collects = @ + 1]
  /\ UNCHANGED <<now, ticks, config, is_monitoring, data_queue, last_ip_check,
                 wakeAt, uiPc, latest_data, history, hist_src, pubCount, taken,
                 iterPublished, pubsAfterStop, stopPc, lastOkFetch,
                 evicted, clsIn, clsOut, trend, partVars>>

\* Line 800, after which _manual_refresh_worker returns
\* a worker that collects again after its put
WorkerAfterPutAgain == "probe"

WorkerAfterPut == "done"

WorkerPut(w) ==
  /\ thr[w].pc = "put"
  /\ data_queue' = QueuePut(data_queue,
                            [thr[w].data EXCEPT !.id = pubCount + 1])
  /\ pubCount' = pubCount + 1
  /\ thr' = [thr EXCEPT ![w].pc = WorkerAfterPut, ![w].data = EmptyData]
  /\ mDone' = [mDone EXCEPT ![w].puts = @ + 1]
  /\ UNCHANGED <<taken, now, ticks, config, is_monitoring, last_ip_check, wakeAt,
                 uiPc, latest_data, history, shown, hist_src, collects,
                 iterPublished, pubsAfterStop, stopPc, lastOkFetch,
                 evicted, clsIn, clsOut, trend, partVars>>

\* ------------------------------------------------------------------ update_ui
\* The timer fires; line 593
UiStart ==
  /\ uiPc = "idle"
  /\ uiPc' = "drain"
  /\ latest_data' = None
  /\ UNCHANGED <<now, ticks, config, is_monitoring, data_queue, last_ip_check,
                 thr, wakeAt, history, shown, hist_src, collects, pubCount, taken,
                 iterPublished, pubsAfterStop, stopPc, lastOkFetch,
                 evicted, mDone, clsIn, clsOut, trend, partVars>>

\* Line 595: each get_nowait overwrites latest_data
\* a drain that keeps the first item it got
DrainKeepFirst(latest, item) == IF latest = None THEN Some(item) ELSE latest

DrainKeep(latest, item) == Some(item)

\* Lines 594-595, one turn of the while loop
UiGet ==
  /\ uiPc = "drain"
  /\ data_queue # <<>>
  /\ latest_data' = DrainKeep(latest_data, Head(data_queue))
  /\ data_queue' = Tail(data_queue)
  /\ taken' = taken + 1
  /\ UNCHANGED <<now, ticks, config, is_monitoring, last_ip_check, thr,
                 wakeAt, uiPc, history, shown, hist_src, collects, pubCount,
                 iterPublished, pubsAfterStop, stopPc, lastOkFetch,
                 evicted, mDone, clsIn, clsOut, trend, partVars>>

\* Line 597: is there anything to show?
\* an update_ui that sets its timer again only when it had data to show
AfterDrainStops(latest) == IF latest # None THEN "handle" ELSE "closed"

\* a drain that goes on to the display without the test of line 597
AfterDrainAlways(latest) == "handle"

AfterDrain(latest) == IF latest # None THEN "handle" ELSE "idle"

\* Line 594 finds the queue empty; lines 597 and 606
UiDrained ==
  /\ uiPc = "drain"
  /\ data_queue = <<>>
  /\ uiPc' = AfterDrain(latest_data)
  /\ UNCHANGED <<now, ticks, config, is_monitoring, data_queue, last_ip_check,
                 thr, wakeAt, latest_data, history, shown, hist_src,
                 collects, pubCount, taken, iterPublished, pubsAfterStop,
                 stopPc, lastOkFetch, evicted, mDone, clsIn, clsOut, trend, partVars>>

\* Lines 598-600 and 606.  The window starts in the compact view and no
\* action of this specification changes the view, so the trend canvas,
\* which belongs to the detailed view, is not mapped when it is redrawn.
UiHandle ==
  /\ uiPc = "handle"
  /\ shown' = update_display(shown, Val(latest_data))
  /\ history' = update_history(history, Val(latest_data), now)
  /\ hist_src' = HistorySources(hist_src, history, Val(latest_data), now)
  /\ evicted' = (evicted \/ Len(hist_src') <= Len(hist_src))
  /\ trend' = Some(update_trend_graph(history', UnmappedCanvas))
  /\ latest_data' = None
  /\ uiPc' = "idle"
  /\ UNCHANGED <<now, ticks, config, is_monitoring, data_queue, last_ip_check,
                 thr, wakeAt, collects, pubCount, taken, iterPublished,
                 pubsAfterStop, stopPc, lastOkFetch, mDone,
                 clsIn, clsOut, partVars>>

\* ----------------------------------------------------------------- on_closing
\* Lines 882-887, a UI callback: the flag is cleared, the configuration is
\* saved, and the window is destroyed, so that no further callback runs
OnClosing ==
  /\ uiPc = "idle"
  /\ cfgPc = "running"
  /\ is_monitoring' = FALSE
  /\ \E outcome \in SaveOutcomes :
       /\ cfgFile' = save_config(cfgMem, cfgFile, outcome)
       /\ cfgLog' = [cfgLog EXCEPT !.op = "closing", !.save = outcome,
                                   !.failed = @ \/ outcome # "ok"]
  /\ uiPc' = "closed"
  /\ stopPc' = thr[LoopId].pc
  /\ UNCHANGED <<now, ticks, config, data_queue, last_ip_check, thr, wakeAt,
                 latest_data, history, shown, hist_src, collects, pubCount,
                 taken, pubsAfterStop, iterPublished, lastOkFetch, evicted,
                 mDone, clsIn, clsOut, colIn, colOut, pingIn, pingOut,
                 cfgMem, cfgPc, trend, rd, published,
                 trendIn>>

\* ----------------------------------------------------------- specification
LoopStep == LoopCheck \/ LoopPut \/ LoopSleep \/ LoopWake
CollectStep(t) ==
  CollectProbes(t) \/ CollectPublicIp(t)
WorkerStep(w) == ManualRefresh(w) \/ WorkerPut(w)
UiStep == UiStart \/ UiGet \/ UiDrained \/ UiHandle

Next ==
  \/ Tick
  \/ LoopCheck
  \/ LoopPut
  \/ LoopSleep
  \/ LoopWake
  \/ \E t \in Threads : CollectProbes(t)
  \/ \E t \in Threads : CollectPublicIp(t)
  \/ \E w \in Workers : ManualRefresh(w)
  \/ \E w \in Workers : WorkerPut(w)
  \/ UiStart
  \/ UiGet
  \/ UiDrained
  \/ UiHandle
  \/ OnClosing

Spec == Init /\ [][Next]_vars

\* ----------------------------------- the status rule on its own (SpecClassify)
ClassifyPings == {None, Some(0), Some(50), Some(100), Some(101), Some(150)}
ClassifySignals == {None, Some(-80), Some(-71), Some(-70), Some(-69), Some(-30)}

ClassifyInputs ==
  {[EmptyData EXCEPT !.error = e, !.ping = p, !.signal = s] :
     e \in BOOLEAN, p \in ClassifyPings, s \in ClassifySignals}

InitClassify ==
  /\ InitProgram
  /\ clsIn \in ClassifyInputs
  /\ clsOut = "unset"
  /\ RestParts

Classify ==
  /\ clsOut = "unset"
  /\ clsOut' = calculate_overall_status(clsIn)
  /\ UNCHANGED <<clsIn, now, ticks, config, is_monitoring, data_queue,
                 last_ip_check, thr, wakeAt, uiPc, latest_data, history,
                 shown, hist_src, collects, pubCount, taken, iterPublished, pubsAfterStop, stopPc, lastOkFetch, evicted,
                 mDone, trend, partVars>>

NextClassify == Classify

SpecClassify == InitClassify /\ [][NextClassify]_vars

\* ------------------------- collect_network_data on its own (SpecCollect)
\* psutil's view of the interfaces: it fails, shows no active interface,
\* or shows an active one whose name does or does not contain wifi/wireless
Interfaces == {"fault", "none", "wifi", "ethernet"}

\* netsh's "Signal" percentage, if the platform is Windows and the WLAN
\* adapter reports one; it is asked whatever the active interface is
SignalProbes ==
  {[platform |-> "Other", pct |-> None],
   [platform |-> "Windows", pct |-> None],
   [platform |-> "Windows", pct |-> Some(50)]}

\* where an unexpected fault strikes inside the try block, if anywhere
FaultPoints == {"none", "after_info", "after_probes"}

get_network_info_uncaught(iface) ==
  CASE iface = "wifi" ->
         Returned([connection_type |-> "WiFi", network_name |-> "ssid",
                   local_ip |-> "192.0.2.10"])
    [] iface = "ethernet" ->
         Returned([connection_type |-> "Ethernet", network_name |-> "eth0",
                   local_ip |-> "192.0.2.10"])
    [] iface = "none" ->
         Returned([connection_type |-> "Disconnected",
                   network_name |-> "Not connected",
                   local_ip |-> "Not available"])
    [] OTHER -> Raised(EmptyDict)

get_network_info(iface) ==
  CASE iface = "wifi" ->
         Returned([connection_type |-> "WiFi", network_name |-> "ssid",
                   local_ip |-> "192.0.2.10"])
    [] iface = "ethernet" ->
         Returned([connection_type |-> "Ethernet", network_name |-> "eth0",
                   local_ip |-> "192.0.2.10"])
    [] iface = "none" ->
         Returned([connection_type |-> "Disconnected",
                   network_name |-> "Not connected",
                   local_ip |-> "Not available"])
    [] OTHER ->
         Returned([connection_type |-> "Unknown",
                   network_name |-> "Error getting info",
                   local_ip |-> "Unknown"])

\* round(-100 + signal_pct * 0.7) for a percentage that is a multiple of 10
PctToDbm(pct) == -100 + (pct * 7) \div 10

get_signal_strength(probe) ==
  IF probe.platform = "Windows" /\ probe.pct # None
  THEN Some(PctToDbm(Val(probe.pct)))
  ELSE None

\* The try block, lines 419-435
CollectBody(in, clock) ==
  LET info == get_network_info(in.iface)
      d1 == DictUpdate(EmptyDict, info.value)
      d2 == DictUpdate(d1, [ping |-> in.ping,
                            signal |-> get_signal_strength(in.signal)])
      d3 == IF IpCheckDue(in.last_ip_check, clock)
            THEN DictUpdate(d2, [public_ip |-> get_public_ip(in.ip)])
            ELSE d2
  IN  IF info.raised THEN Raised(EmptyDict)
      ELSE IF in.fault = "after_info" THEN Raised(d1)
      ELSE IF in.fault = "after_probes" THEN Raised(d2)
      ELSE Returned(DictUpdate(d3, [timestamp |-> clock]))

\* The except branch, lines 437-439
ErrorSampleKeepingPartial(partial, clock) ==
  DictUpdate(partial, [error |-> "fault", timestamp |-> clock])

ErrorSample(partial, clock) == [error |-> "fault", timestamp |-> clock]

collect_network_data(in, clock) ==
  LET r == CollectBody(in, clock)
  IN  IF r.raised THEN Returned(ErrorSample(r.value, clock)) ELSE r

CollectInputs ==
  [iface : Interfaces, ping : {None, Some(30)}, signal : SignalProbes,
   last_ip_check : {None, Some(0)}, ip : IpResults, fault : FaultPoints]

InitCollect ==
  /\ RestProgram
  /\ colIn \in {Some(i) : i \in CollectInputs}
  /\ colOut = None
  /\ pingIn = <<>>
  /\ pingOut = None
  /\ cfgMem = ConfigDefaults
  /\ cfgFile = None
  /\ cfgPc = "running"
  /\ cfgLog = StartLog(None)
  /\ rd = RestReader
  /\ published = NoPublish
  /\ trendIn = None

Collect ==
  /\ colOut = None
  /\ \E clock \in {0, IpCheckInterval + 1} :
       colOut' = Some(collect_network_data(Val(colIn), clock))
  /\ UNCHANGED <<programVars, clsIn, clsOut, colIn, pingIn, pingOut, cfgMem,
                 cfgFile, cfgPc, cfgLog, rd, published, trendIn>>

NextCollect == Collect

SpecCollect == InitCollect /\ [][NextCollect]_vars

\* ------------------------------ get_ping_latency on its own (SpecPing)
\* Latencies are in tenths of a millisecond, so that one decimal place is
\* exact.  Per target, the ping yields a parsed time, or nothing: the
\* command timed out, failed, or printed no time the parser accepts.
PingOutcomes == {None, Some(200), Some(201), Some(300)}

PingInputs == UNION {[1..n -> PingOutcomes] : n \in 0..MaxTargets}

\* total_time after the loop over the targets
RECURSIVE total_time(_)
total_time(outs) ==
  IF outs = <<>> THEN 0
  ELSE (IF Head(outs) = None THEN 0 ELSE Val(Head(outs)))
       + total_time(Tail(outs))

\* successful_pings after the loop over the targets
successful_pings_all(outs) == Len(outs)

successful_pings(outs) ==
  Cardinality({i \in DOMAIN outs : outs[i] # None})

\* round(total / n, 1) in tenths.  When total / n lies exactly halfway
\* between two tenths, the float quotient and its rounding settle on one of
\* the two; tie says which.
RoundOneDecimal(total, n, tie) ==
  LET q == total \div n
      twiceRest == 2 * (total - n * q)
  IN  IF twiceRest < n THEN q
      ELSE IF twiceRest > n THEN q + 1
      ELSE IF tie = "up" THEN q + 1 ELSE q

get_ping_latency(outs, tie) ==
  IF successful_pings(outs) > 0
  THEN Some(RoundOneDecimal(total_time(outs), successful_pings(outs), tie))
  ELSE None

InitPing ==
  /\ RestProgram
  /\ colIn = None
  /\ colOut = None
  /\ pingIn \in PingInputs
  /\ pingOut = None
  /\ cfgMem = ConfigDefaults
  /\ cfgFile = None
  /\ cfgPc = "running"
  /\ cfgLog = StartLog(None)
  /\ rd = RestReader
  /\ published = NoPublish
  /\ trendIn = None

Ping ==
  /\ pingOut = None
  /\ \E tie \in {"down", "up"} :
       pingOut' = Some(get_ping_latency(pingIn, tie))
  /\ UNCHANGED <<programVars, clsIn, clsOut, colIn, colOut, pingIn, cfgMem,
                 cfgFile, cfgPc, cfgLog, rd, published, trendIn>>

NextPing == Ping

SpecPing == InitPing /\ [][NextPing]_vars

\* ------------------------------------------ the trend graph (SpecTrend)
\* Ping values a history can hold: None for a failed ping or an error Sample
TrendPings == {None, Some(30), Some(130), Some(250)}

HistoryOf(pings) ==
  [timestamps |-> [i \in 1..Len(pings) |-> i],
   ping_values |-> pings,
   signal_values |-> [i \in 1..Len(pings) |-> None]]

TrendInputs ==
  {[history |-> HistoryOf(pings), canvas |-> canvas] :
     pings \in UNION {[1..n -> TrendPings] : n \in 0..MaxHistory},
     canvas \in CanvasSizes}

InitTrend ==
  /\ RestProgram
  /\ colIn = None
  /\ colOut = None
  /\ pingIn = None
  /\ pingOut = None
  /\ cfgMem = ConfigDefaults
  /\ cfgFile = None
  /\ cfgPc = "running"
  /\ cfgLog = StartLog(None)
  /\ rd = RestReader
  /\ published = NoPublish
  /\ trendIn \in {Some(in) : in \in TrendInputs}

DrawTrend ==
  /\ trend = None
  /\ trend' = Some(update_trend_graph(Val(trendIn).history,
                                      Val(trendIn).canvas))
  /\ UNCHANGED <<now, ticks, config, is_monitoring, data_queue, last_ip_check,
                 thr, wakeAt, uiPc, latest_data, history, shown, hist_src,
                 collects, pubCount, taken, iterPublished, pubsAfterStop,
                 stopPc, lastOkFetch, evicted, mDone, clsIn, clsOut,
                 partVars>>

NextTrend == DrawTrend

SpecTrend == InitTrend /\ [][NextTrend]_vars

\* --------------------------------- the configuration store (SpecStore)
\* What the file can hold at startup: nothing, what an earlier run saved,
\* hand-edited objects (a negative interval; a field the program does not
\* know), or text that does not parse
PersistedFiles ==
  {None,
   Some([valid |-> TRUE,
         text |-> [k \in DOMAIN ConfigDefaults |->
                     <<JsonKind(k), ConfigDefaults[k]>>]]),
   Some([valid |-> TRUE, text |-> [refresh_interval |-> <<"number", -1>>]]),
   Some([valid |-> TRUE,
         text |-> [theme |-> <<"string", "dark">>,
                   window_x |-> <<"number", 40>>]]),
   Some(Truncated)}

load_config_from_file_only(mem, file) ==
  IF file = None THEN EmptyDict
  ELSE LET saved_config == JsonLoad(Val(file))
       IN  IF saved_config.raised THEN mem
           ELSE DictUpdate(mem, saved_config.value)

load_config(mem, file) ==
  IF file = None THEN mem
  ELSE LET saved_config == JsonLoad(Val(file))
       IN  IF saved_config.raised THEN mem
           ELSE DictUpdate(mem, saved_config.value)

\* The dialog's entries: the lines of the targets box, the two numeric
\* entries as the number typed in tenths (None when it is not a number), the
\* opacity scale in tenths, and the three choices
DialogInputs ==
  LET clamped == [lines |-> <<"">>, ping_timeout |-> Some(-5),
                  refresh |-> Some(0), opacity |-> 15, theme |-> "dark",
                  auto_start |-> TRUE, view_mode |-> "minimal"]
      plain == [lines |-> <<"9.9.9.9", "">>, ping_timeout |-> Some(27),
                refresh |-> Some(100), opacity |-> 5, theme |-> "light",
                auto_start |-> FALSE, view_mode |-> "detailed"]
  IN  {clamped, plain, [plain EXCEPT !.ping_timeout = None]}

\* int(float(text)) truncates toward zero
IntOfFloat(tenths) ==
  IF tenths >= 0 THEN tenths \div 10 ELSE -((-tenths) \div 10)

Max(a, b) == IF a >= b THEN a ELSE b
Min(a, b) == IF a <= b THEN a ELSE b

NonBlank(line) == line # ""

\* ok_clicked up to the callback: the dialog's copy of the config with the
\* validated entries, or ValueError
ok_clicked(copy, in) ==
  IF in.ping_timeout = None \/ in.refresh = None THEN Raised(copy)
  ELSE LET targets == SelectSeq(in.lines, NonBlank)
       IN  Returned(DictUpdate(copy,
             [ping_targets |-> IF targets = <<>>
                               THEN <<"8.8.8.8", "1.1.1.1">>
                               ELSE targets,
              ping_timeout |-> Max(1, IntOfFloat(Val(in.ping_timeout))),
              refresh_interval |-> Max(1, IntOfFloat(Val(in.refresh))),
              opacity |-> Max(0, Min(10, in.opacity)),
              theme |-> in.theme,
              auto_start |-> in.auto_start,
              view_mode |-> in.view_mode]))

ViewModes == {"minimal", "compact", "detailed"}

InitStore ==
  /\ RestProgram
  /\ colIn = None
  /\ colOut = None
  /\ pingIn = <<>>
  /\ pingOut = None
  /\ cfgMem = ConfigDefaults
  /\ cfgFile \in PersistedFiles
  /\ cfgPc = "constructed"
  /\ cfgLog = StartLog(cfgFile)
  /\ rd = RestReader
  /\ published = NoPublish
  /\ trendIn = None

storeRest == <<now, ticks, config, is_monitoring, data_queue, last_ip_check,
               thr, wakeAt, uiPc, latest_data, history, shown, hist_src,
               collects, pubCount, taken, iterPublished, pubsAfterStop,
               stopPc, lastOkFetch, evicted, mDone, clsIn, clsOut, colIn,
               colOut, pingIn, pingOut, trend, rd, published, trendIn>>

\* __init__, line 27
LoadConfig ==
  /\ cfgPc = "constructed"
  /\ cfgMem' = load_config(cfgMem, cfgFile)
  /\ cfgPc' = "running"
  /\ cfgLog' = [cfgLog EXCEPT !.op = "load"]
  /\ UNCHANGED <<cfgFile, storeRest>>

\* The dialog's OK button: ok_clicked, and through its callback apply_config
OkClicked ==
  /\ uiPc = "idle"
  /\ cfgPc = "running"
  /\ \E in \in DialogInputs, outcome \in SaveOutcomes :
       LET checked == ok_clicked(cfgMem, in)
           applied == apply_config(cfgMem, cfgFile, checked.value, outcome)
       IN  IF checked.raised
           THEN /\ cfgLog' = [cfgLog EXCEPT !.op = "rejected",
                                            !.save = "none"]
                /\ UNCHANGED <<cfgMem, cfgFile>>
           ELSE /\ cfgMem' = applied.config
                /\ cfgFile' = applied.file
                /\ cfgLog' = [cfgLog EXCEPT
                                !.op = "apply", !.save = outcome,
                                !.applied = TRUE,
                                !.failed = @ \/ outcome # "ok"]
  /\ UNCHANGED <<cfgPc, storeRest>>

\* set_view_mode / cycle_view_mode, both ending in update_view_mode, whose
\* last statement stores the mode in self.config
SetViewMode ==
  /\ uiPc = "idle"
  /\ cfgPc = "running"
  /\ \E mode \in ViewModes :
       cfgMem' = DictUpdate(cfgMem, [view_mode |-> mode])
  /\ cfgLog' = [cfgLog EXCEPT !.op = "view_mode", !.save = "none"]
  /\ UNCHANGED <<cfgFile, cfgPc, storeRest>>

NextStore ==
  \/ LoadConfig
  \/ OkClicked
  \/ SetViewMode
  \/ OnClosing

SpecStore == InitStore /\ [][NextStore]_vars

\* ------------------- apply during a collection in flight (SpecSnapshot)
\* The part of self.config that one iteration of monitoring_loop reads
ConfigVersion(cfg) ==
  [ping_targets |-> cfg.ping_targets,
   ping_timeout |-> cfg.ping_timeout,
   refresh_interval |-> cfg.refresh_interval]

InitSnapshot ==
  /\ RestProgram
  /\ colIn = None
  /\ colOut = None
  /\ pingIn = None
  /\ pingOut = None
  /\ cfgMem = ConfigDefaults
  /\ cfgFile = None
  /\ cfgPc = "running"
  /\ cfgLog = StartLog(None)
  /\ rd = RestReader
  /\ published = NoPublish
  /\ trendIn = None

snapshotRest == <<programVars, clsIn, clsOut, colIn, colOut, pingIn, pingOut,
                  cfgMem, cfgFile, cfgPc, cfgLog, published, trendIn>>

\* Line 513: the for statement evaluates self.config['ping_targets'] once
\* and iterates over that list object; apply_config stores a new list under
\* the key and leaves the old one as it was.
ReadTargets ==
  /\ rd.pc \in {"idle", "slept"}
  /\ rd' = [pc |-> IF cfgMem.ping_targets = <<>> THEN "sleep" ELSE "arg",
            targets |-> cfgMem.ping_targets,
            next |-> 1,
            timeouts |-> <<>>,
            interval |-> None,
            seen |-> {ConfigVersion(cfgMem)}]
  /\ UNCHANGED snapshotRest

\* Line 534 (517 on Windows): the ping command's own timeout argument
ReadTimeoutArg ==
  /\ rd.pc = "arg"
  /\ rd' = [rd EXCEPT !.pc = "limit",
                      !.timeouts = Append(@, cfgMem.ping_timeout),
                      !.seen = @ \cup {ConfigVersion(cfgMem)}]
  /\ UNCHANGED snapshotRest

\* Line 535 (518 on Windows): subprocess.run's timeout, then the next target
ReadTimeoutLimit ==
  /\ rd.pc = "limit"
  /\ rd' = [rd EXCEPT !.pc = IF rd.next = Len(rd.targets)
                             THEN "sleep" ELSE "arg",
                      !.next = @ + 1,
                      !.timeouts = Append(@, cfgMem.ping_timeout),
                      !.seen = @ \cup {ConfigVersion(cfgMem)}]
  /\ UNCHANGED snapshotRest

\* Line 410: the sleep that ends the iteration
ReadInterval ==
  /\ rd.pc = "sleep"
  /\ rd' = [rd EXCEPT !.pc = "slept",
                      !.interval = Some(cfgMem.refresh_interval),
                      !.seen = @ \cup {ConfigVersion(cfgMem)}]
  /\ UNCHANGED snapshotRest

NextSnapshot ==
  \/ OkClicked
  \/ ReadTargets
  \/ ReadTimeoutArg
  \/ ReadTimeoutLimit
  \/ ReadInterval

SpecSnapshot == InitSnapshot /\ [][NextSnapshot]_vars

\* ------------------------- producer and consumer without end (SpecLive)
\* The periodic loop and update_ui as they run for as long as the window is
\* open: no bound on the number of iterations, the clock left aside (every
\* sleep ends), and of the history only its newest entry.  The queue is
\* unbounded in the program; here the loop waits when MaxPending Samples
\* are pending.
\*
\* To follow one publish to the history, `published.owed` marks it with 1
\* or 2 (0: none is followed) and every Sample put from then on carries the
\* mark in its id: it is that publish or a newer one.  The mark is one that
\* no pending Sample still carries from an earlier use.
PendingMarks ==
  {data_queue[i].id : i \in DOMAIN data_queue}
    \cup (IF latest_data = None THEN {} ELSE {Val(latest_data).id})

\* Line 403
LiveCheck ==
  /\ thr[LoopId].pc = "check"
  /\ thr' = [thr EXCEPT ![LoopId].pc = LoopTop(is_monitoring)]
  /\ UNCHANGED <<now, ticks, config, is_monitoring, data_queue, last_ip_check,
                 wakeAt, uiPc, latest_data, history, shown, hist_src,
                 collects, pubCount, taken, iterPublished, pubsAfterStop,
                 stopPc, lastOkFetch, evicted, mDone, clsIn, clsOut, trend,
                 partVars>>

\* Line 407
LivePut ==
  /\ thr[LoopId].pc = "put"
  /\ Len(data_queue) < MaxPending
  /\ \E mark \in 0..2 :
       /\ IF published.owed # 0 THEN mark = published.owed
          ELSE mark = 0 \/ mark \notin PendingMarks
       /\ data_queue' = QueuePut(data_queue,
                                 [thr[LoopId].data EXCEPT !.id = mark])
       /\ published' = [published EXCEPT !.owed = mark]
  /\ thr' = [thr EXCEPT ![LoopId].pc = "sleep", ![LoopId].data = EmptyData]
  /\ UNCHANGED <<now, ticks, config, is_monitoring, last_ip_check, wakeAt,
                 uiPc, latest_data, history, shown, hist_src, collects,
                 pubCount, taken, iterPublished, pubsAfterStop, stopPc,
                 lastOkFetch, evicted, mDone, clsIn, clsOut, trend,
                 colIn, colOut, pingIn, pingOut, cfgMem, cfgFile, cfgPc,
                 cfgLog, rd, trendIn>>

\* time.sleep returns (line 410 or 413).  A sleep lasts seconds and one run
\* of the while loop of line 594 microseconds: no sleep ends within a
\* drain that its own put may already have joined, so that the loop puts
\* at most once while the queue is being drained.
LiveWake ==
  /\ thr[LoopId].pc \in {"sleeping", "backoff"}
  /\ uiPc # "drain"
  /\ thr' = [thr EXCEPT ![LoopId].pc = "check"]
  /\ wakeAt' = 0
  /\ UNCHANGED <<now, ticks, config, is_monitoring, data_queue, last_ip_check,
                 uiPc, latest_data, history, shown, hist_src,
                 collects, pubCount, taken, iterPublished, pubsAfterStop,
                 stopPc, lastOkFetch, evicted, mDone, clsIn, clsOut, trend,
                 partVars>>

\* Lines 594-595, one turn of the while loop
LiveGet ==
  /\ uiPc = "drain"
  /\ data_queue # <<>>
  /\ latest_data' = DrainKeep(latest_data, Head(data_queue))
  /\ data_queue' = Tail(data_queue)
  /\ UNCHANGED <<now, ticks, config, is_monitoring, last_ip_check, thr,
                 wakeAt, uiPc, history, shown, hist_src, collects, pubCount,
                 taken, iterPublished, pubsAfterStop, stopPc, lastOkFetch,
                 evicted, mDone, clsIn, clsOut, trend, partVars>>

\* The newest entry of a history
Newest(h) ==
  LET n == Len(h.timestamps)
  IN  [timestamps |-> SubSeq(h.timestamps, n, n),
       ping_values |-> SubSeq(h.ping_values, n, n),
       signal_values |-> SubSeq(h.signal_values, n, n)]

\* Lines 598-600 and 606
LiveHandle ==
  /\ uiPc = "handle"
  /\ shown' = update_display(shown, Val(latest_data))
  /\ history' = Newest(update_history(history, Val(latest_data), now))
  /\ trend' = Some(update_trend_graph(history', UnmappedCanvas))
  /\ published' = IF published.owed # 0
                     /\ Val(latest_data).id = published.owed
                  THEN [owed |-> 0, reached |-> TRUE]
                  ELSE published
  /\ latest_data' = None
  /\ uiPc' = "idle"
  /\ UNCHANGED <<now, ticks, config, is_monitoring, data_queue, last_ip_check,
                 thr, wakeAt, hist_src, collects, pubCount, taken,
                 iterPublished, pubsAfterStop, stopPc, lastOkFetch, evicted,
                 mDone, clsIn, clsOut, colIn, colOut, pingIn, pingOut,
                 cfgMem, cfgFile, cfgPc, cfgLog, rd, trendIn>>

NextLive ==
  \/ LiveCheck
  \/ CollectProbes(LoopId)
  \/ CollectPublicIp(LoopId)
  \/ LivePut
  \/ LoopSleep
  \/ LiveWake
  \/ UiStart
  \/ LiveGet
  \/ UiDrained
  \/ LiveHandle
  \/ OnClosing

\* The loop runs on a thread of its own and the timer of line 606 fires
\* every 500 ms, so each of their steps is taken once it stays possible.
\* update_ui is at rest for most of every 500 ms, so a sleep that is over
\* ends in one of these rests: strong fairness, the drains in between
\* notwithstanding.
FairLive ==
  /\ WF_vars(LiveCheck)
  /\ WF_vars(CollectProbes(LoopId))
  /\ WF_vars(CollectPublicIp(LoopId))
  /\ WF_vars(LivePut)
  /\ WF_vars(LoopSleep)
  /\ SF_vars(LiveWake)
  /\ WF_vars(UiStart)
  /\ WF_vars(LiveGet)
  /\ WF_vars(UiDrained)
  /\ WF_vars(LiveHandle)

SpecLive == Init /\ [][NextLive]_vars /\ FairLive

\* ======================================================================
\* Properties
\* ======================================================================
Last(q) == q[Len(q)]
LoopPc == thr[LoopId].pc

\* ---- C1 (SpecClassify)
\* The status rule as the claim words it
ClaimedStatus(d) ==
  LET total == Cardinality({m \in {"ping", "signal"} : d[m] # None})
      poor_count ==
        Cardinality({m \in {"ping", "signal"} :
                       /\ d[m] # None
                       /\ \/ m = "ping" /\ Val(d[m]) > 100
                          \/ m = "signal" /\ Val(d[m]) < -70})
  IN  IF d.error THEN "poor"
      ELSE IF total = 0 THEN "fair"
      ELSE IF poor_count = 0 THEN "good"
      ELSE IF poor_count = total THEN "poor"
      ELSE "fair"

\* C1: for every Sample, calculate_overall_status returns 'poor' when error
\* is present; otherwise 'fair' with no metric present, 'good' with no poor
\* condition, 'poor' when every present metric is poor, 'fair' otherwise;
\* ping = 100 and signal = -70 are not poor conditions.
C1_StatusRule == clsOut # "unset" => clsOut = ClaimedStatus(clsIn)

C1_Witness ==
  /\ clsOut = "good"
  /\ ~clsIn.error
  /\ clsIn.ping = Some(100)
  /\ clsIn.signal = Some(-70)

\* ---- C2
\* C2: after any sequence of appends and evictions the three history lists
\* have equal length and the entries at one index come from the same Sample.
C2_ParallelHistory ==
  /\ Len(history.timestamps) = Len(hist_src)
  /\ Len(history.ping_values) = Len(hist_src)
  /\ Len(history.signal_values) = Len(hist_src)
  /\ \A i \in 1..Len(hist_src) :
       /\ history.timestamps[i] = hist_src[i].timestamp
       /\ history.ping_values[i] = hist_src[i].ping
       /\ history.signal_values[i] = hist_src[i].signal

C2_Witness == evicted /\ Len(history.timestamps) >= 1

\* ---- C3
\* C3: right after every history append, no retained timestamp is older
\* than 24 hours relative to the time of that append.
C3_NothingOlderThanWindow ==
  [][history' # history =>
       \A i \in 1..Len(history'.timestamps) :
          history'.timestamps[i] >= now' - HistoryWindow]_vars

\* ---- C4
InFlightPcs == {"probe", "ipquery", "put"}

\* C4: after on_closing the loop publishes at most the one Sample whose
\* collection was in flight, and none when on_closing ran while the loop was
\* at its top, in its interval sleep or in its backoff.
C4_NoPublishAfterStop ==
  stopPc # "running" =>
    pubsAfterStop <= (IF stopPc \in InFlightPcs THEN 1 ELSE 0)

C4_Witness ==
  /\ stopPc = "backoff"
  /\ LoopPc = "exit"
  /\ pubsAfterStop = 0

\* ---- C5
\* C5 as stated: the channel never holds more than one pending Sample.
C5_AtMostOnePending == Len(data_queue) <= 1

\* C5 amended: the channel holds every Sample published and not yet taken
\* by the consumer, in publish order, the newest last.
C5_PendingInPublishOrder ==
  /\ Len(data_queue) = pubCount - taken
  /\ \A i \in 1..Len(data_queue) : data_queue[i].id = taken + i

C5_Witness == Len(data_queue) = 2

\* ---- C6
\* C6: a put is always possible; when a drain ends with something fetched,
\* the queue is empty and the Sample kept is the last one published; only
\* that Sample is appended to the history.
C6_LatestWins ==
  /\ [](\A t \in Threads : thr[t].pc = "put" =>
           IF t = LoopId THEN ENABLED LoopPut ELSE ENABLED WorkerPut(t))
  /\ [][/\ (uiPc = "drain" /\ uiPc' = "handle") =>
            /\ data_queue = <<>>
            /\ Val(latest_data).id = pubCount
        /\ (uiPc = "handle" /\ uiPc' # "handle") =>
            /\ Len(hist_src') <= Len(hist_src) + 1
            /\ hist_src' # <<>> =>
                 /\ Last(hist_src').timestamp = Val(latest_data).timestamp
                 /\ Last(hist_src').ping = Val(latest_data).ping
                 /\ Last(hist_src').signal = Val(latest_data).signal
                 /\ SubSeq(hist_src', 1, Len(hist_src') - 1)
                      = SubSeq(hist_src, Len(hist_src) - Len(hist_src') + 2,
                               Len(hist_src))]_vars

\* two Samples were pending in one drain and the older one was dropped
C6_Witness ==
  /\ uiPc = "handle"
  /\ Val(latest_data).id = 2
  /\ hist_src = <<>>
  /\ ~evicted

\* ---- C7
\* C7: a drain that fetched nothing ends the callback and leaves the
\* history and everything displayed as they were.
C7_EmptyDrainNoOp ==
  [][(uiPc = "drain" /\ latest_data = None /\ data_queue = <<>>) =>
       /\ uiPc' \in {"drain", "idle"}
       /\ history' = history
       /\ hist_src' = hist_src
       /\ shown' = shown]_vars

\* a poll finds nothing new after an earlier Sample was shown
C7_Witness ==
  /\ uiPc = "drain"
  /\ latest_data = None
  /\ data_queue = <<>>
  /\ Len(hist_src) >= 1

C9_ManualRefreshIsolated ==
  /\ [](\A w \in Workers :
          /\ mDone[w].collects <= 1
          /\ mDone[w].puts <= mDone[w].collects
          /\ thr[w].pc = "done" => mDone[w] = [collects |-> 1, puts |-> 1])
  /\ [][(\E w \in Workers : thr'[w] # thr[w]) =>
          /\ thr'[LoopId] = thr[LoopId]
          /\ wakeAt' = wakeAt
          /\ is_monitoring' = is_monitoring
          /\ iterPublished' = iterPublished]_vars

C9_Witness ==
  \E w \in Workers :
    /\ thr[w].pc = "done"
    /\ mDone[w].puts = 1
    /\ LoopPc = "sleeping"

\* ---- C10
\* C10: the public-IP provider is never queried less than 300 seconds
\* after a successful fetch.
C10_IpRateLimit ==
  [][(\E t \in Threads : thr[t].pc = "ipquery" /\ thr'[t].pc = "put") =>
       (lastOkFetch = None \/ now - Val(lastOkFetch) >= IpCheckInterval)]_vars

\* ---- C11 (SpecCollect)
\* C11: collect_network_data never raises: whatever the probes meet, it
\* returns a Sample that carries a timestamp, and a Sample that carries
\* error carries timestamp and error and nothing else.
C11_CollectNeverRaises ==
  colOut # None =>
    LET r == Val(colOut)
    IN  /\ ~r.raised
        /\ "timestamp" \in DOMAIN r.value
        /\ "error" \in DOMAIN r.value =>
             DOMAIN r.value = {"error", "timestamp"}

C11_Witness ==
  /\ colOut # None
  /\ Val(colIn).fault = "after_probes"
  /\ "error" \in DOMAIN Val(colOut).value

\* ---- C19 (SpecCollect)
\* C19: when resolving the interfaces fails and nothing else goes wrong, the
\* Sample has no error, its connection type is Unknown, and its ping, signal
\* and public IP are what the same probes give with a working interface.
C19_InterfaceFaultIsUnknown ==
  (colOut # None /\ Val(colIn).iface = "fault" /\ Val(colIn).fault = "none")
  =>
    LET d == Val(colOut).value
    IN  /\ "error" \notin DOMAIN d
        /\ d.connection_type = "Unknown"
        /\ LET ref == collect_network_data(
                        [Val(colIn) EXCEPT !.iface = "ethernet"],
                        d.timestamp).value
           IN  /\ DOMAIN d = DOMAIN ref
               /\ d.ping = ref.ping
               /\ d.signal = ref.signal
               /\ "public_ip" \in DOMAIN d => d.public_ip = ref.public_ip

C19_Witness ==
  /\ colOut # None
  /\ Val(colIn).iface = "fault"
  /\ Val(colIn).fault = "none"
  /\ Val(colIn).ping # None
  /\ "public_ip" \in DOMAIN Val(colOut).value
  /\ Val(colOut).value.signal # None
  /\ Val(colOut).value.connection_type = "Unknown"

\* ---- C20 (SpecCollect)
\* C20: a Sample that carries a signal has connection type WiFi; for
\* Ethernet, Disconnected and Unknown the signal is absent.
C20_SignalOnlyOnWiFi ==
  (colOut # None /\ "error" \notin DOMAIN Val(colOut).value) =>
    (Val(colOut).value.signal # None =>
       Val(colOut).value.connection_type = "WiFi")

\* ---- C12 (SpecPing)
\* The measurements the claim averages: those of the targets that succeeded
RECURSIVE SumOver(_, _)
SumOver(f, S) ==
  IF S = {} THEN 0
  ELSE LET i == CHOOSE j \in S : TRUE
       IN  Val(f[i]) + SumOver(f, S \ {i})

\* C12: a target that errors or times out contributes nothing: the ping
\* latency is present exactly when at least one target succeeded, and is
\* then the arithmetic mean of the successful measurements rounded to one
\* decimal place (within half a tenth of the exact mean).
C12_MeanOfSuccesses ==
  pingOut # None =>
    LET ok == {i \in DOMAIN pingIn : pingIn[i] # None}
        n == Cardinality(ok)
        r == Val(pingOut)
        diff == n * Val(r) - SumOver(pingIn, ok)
    IN  /\ r # None <=> ok # {}
        /\ r # None => /\ 2 * diff <= n
                       /\ 2 * diff >= -n

\* successes of 20 and 30 ms around a target that timed out give 25.0
C12_Witness ==
  /\ pingIn = <<Some(200), None, Some(300)>>
  /\ pingOut = Some(Some(250))

\* ---- C13 (SpecStore)
\* C13: in every state after load, whatever the file held and whatever was
\* applied, the Config has at least one ping target, a refresh interval and
\* a ping timeout of at least 1 and an opacity between 0 and 1.
C13_ConfigAlwaysValid ==
  cfgPc # "constructed" =>
    /\ Len(cfgMem.ping_targets) >= 1
    /\ cfgMem.refresh_interval >= 1
    /\ cfgMem.ping_timeout >= 1
    /\ cfgMem.opacity >= 0
    /\ cfgMem.opacity <= 10

\* ---- C14 (SpecStore)
\* C14 as stated: only apply changes the Config and apply persists what it
\* changes, so that once an apply has happened and no save has failed the
\* persisted Config is the Config in memory.
C14_PersistedAfterFirstApply ==
  (cfgLog.applied /\ ~cfgLog.failed) => cfgFile = Some(JsonDump(cfgMem))

\* C14 amended: after load, a step that changes the Config in memory is an
\* apply, which on a successful save leaves the file equal to the Config in
\* memory, or a view-mode change, which changes view_mode alone and leaves
\* the file as it was.
C14_ApplyOrViewModeChanges ==
  [][(cfgPc = "running" /\ cfgMem' # cfgMem) =>
       \/ /\ cfgLog'.op = "apply"
          /\ cfgLog'.save = "ok" => cfgFile' = Some(JsonDump(cfgMem'))
       \/ /\ cfgLog'.op = "view_mode"
          /\ cfgFile' = cfgFile
          /\ DOMAIN cfgMem' = DOMAIN cfgMem
          /\ \A k \in DOMAIN cfgMem \ {"view_mode"} : cfgMem'[k] = cfgMem[k]
    ]_vars

C14_Witness ==
  /\ cfgLog.applied
  /\ ~cfgLog.failed
  /\ cfgLog.op = "view_mode"
  /\ cfgFile # Some(JsonDump(cfgMem))

\* ---- C15 (SpecStore)
\* C15 as stated: when no file exists at startup, the file stays absent
\* until an apply has happened.
C15_AbsentUntilApply ==
  (cfgLog.startAbsent /\ ~cfgLog.applied) => cfgFile = None

\* C15 amended: when no file exists at startup, load leaves the defaults and
\* creates no file, and the file stays absent until an apply has happened or
\* the application has been closed.
C15_AbsentUntilApplyOrClosing ==
  cfgLog.startAbsent =>
    /\ cfgLog.op = "load" => (cfgMem = ConfigDefaults /\ cfgFile = None)
    /\ (~cfgLog.applied /\ uiPc # "closed") => cfgFile = None

C15_Witness ==
  /\ cfgLog.startAbsent
  /\ ~cfgLog.applied
  /\ uiPc = "closed"
  /\ cfgFile # None

\* ---- C16 (SpecStore)
\* The object the file holds, read independently of JsonLoad; empty when
\* the file is absent or does not parse
PersistedObject ==
  IF cfgFile = None \/ ~Val(cfgFile).valid THEN EmptyDict
  ELSE [k \in DOMAIN Val(cfgFile).text |-> Val(cfgFile).text[k][2]]

\* C16 as stated: after load the Config holds exactly the Config entity's
\* fields, each with the persisted value if the file has it and the default
\* otherwise.
C16_ExactlyEntityFields ==
  cfgLog.op = "load" =>
    /\ DOMAIN cfgMem = DOMAIN ConfigDefaults
    /\ \A k \in DOMAIN ConfigDefaults :
         cfgMem[k] = IF k \in DOMAIN PersistedObject
                     THEN PersistedObject[k] ELSE ConfigDefaults[k]

\* C16 amended: after load the Config holds the Config entity's fields and
\* every field of the persisted object, known or not, each with the
\* persisted value if the file has it and the default otherwise.
C16_LoadMergesEveryField ==
  cfgLog.op = "load" =>
    /\ DOMAIN cfgMem = DOMAIN ConfigDefaults \cup DOMAIN PersistedObject
    /\ \A k \in DOMAIN cfgMem :
         cfgMem[k] = IF k \in DOMAIN PersistedObject
                     THEN PersistedObject[k] ELSE ConfigDefaults[k]

C16_Witness ==
  /\ cfgLog.op = "load"
  /\ "window_x" \in DOMAIN cfgMem
  /\ cfgMem.theme = "dark"
  /\ cfgMem.refresh_interval = DefaultRefreshInterval

C18_FailedSaveKeepsFile ==
  [][(cfgLog'.op = "apply" /\ cfgLog'.save # "ok") => cfgFile' = cfgFile]_vars

\* ---- C22 (Spec)
\* C22: in every reachable state the History timestamps are in
\* non-decreasing order, whatever the interleaving of the periodic and the
\* manual producers.
C22_TimestampsNonDecreasing ==
  \A i \in 1..(Len(history.timestamps) - 1) :
    history.timestamps[i] <= history.timestamps[i + 1]

\* ---- C24 (Spec)
\* C24: handling a drained Sample that carries error appends an entry with
\* the Sample's timestamp and absent ping and signal to History (the usual
\* eviction of entries older than the window follows), leaves the shown
\* connection, public IP, ping and signal as they were, and sets the status
\* indication to the failure state.
C24_ErrorSampleHandled ==
  [][(uiPc = "handle" /\ uiPc' = "idle" /\ Val(latest_data).error) =>
       /\ shown'.connection_type = shown.connection_type
       /\ shown'.public_ip = shown.public_ip
       /\ shown'.ping_latency = shown.ping_latency
       /\ shown'.signal_strength = shown.signal_strength
       /\ shown'.status_label = "Error collecting data"
       /\ shown'.status_indicator = "red"
       /\ \E n \in 0..(Len(history.timestamps) + 1) :
            /\ history'.timestamps =
                 Drop(Append(history.timestamps,
                             Val(latest_data).timestamp), n)
            /\ history'.ping_values =
                 Drop(Append(history.ping_values, None), n)
            /\ history'.signal_values =
                 Drop(Append(history.signal_values, None), n)
    ]_vars

\* an error Sample handled after a good one: the good one's values stay on
\* display and the error Sample's entry is the newest of History
C24_Witness ==
  /\ uiPc = "idle"
  /\ shown.status_label = "Error collecting data"
  /\ shown.connection_type = "WiFi"
  /\ shown.ping_latency = "30 ms"
  /\ Len(history.timestamps) = 2
  /\ Last(history.ping_values) = None
  /\ Last(history.signal_values) = None

\* ---- C23 (SpecTrend), as stated: update_trend_graph drops the history
\* entries whose ping is absent; with fewer than 2 left it draws no trend,
\* and with 2 or more it draws the trend normalised over [min, max] of the
\* remaining values, max widened by 1 when min = max, never dividing by zero.
TrendLo(pd) == CHOOSE v \in {pd[i] : i \in DOMAIN pd} :
                 \A i \in DOMAIN pd : v <= pd[i]
TrendHi(pd) == CHOOSE v \in {pd[i] : i \in DOMAIN pd} :
                 \A i \in DOMAIN pd : v >= pd[i]
TrendRange(pd) ==
  IF TrendLo(pd) = TrendHi(pd) THEN 1 ELSE TrendHi(pd) - TrendLo(pd)
Normalised(drawn, pd) ==
  /\ Len(drawn.line) = Len(pd)
  /\ drawn.labels = <<TrendLo(pd), TrendLo(pd) + TrendRange(pd)>>
  /\ \A i \in DOMAIN pd :
       /\ drawn.line[i].x = [num |-> i - 1, den |-> Len(pd) - 1]
       /\ drawn.line[i].y = [num |-> pd[i] - TrendLo(pd),
                             den |-> TrendRange(pd)]
       /\ drawn.line[i].x.den # 0
       /\ drawn.line[i].y.den # 0
C21_OneConfigVersion ==
  rd.pc = "slept" =>
    \E v \in rd.seen :
      /\ rd.targets = v.ping_targets
      /\ \A i \in DOMAIN rd.timeouts : rd.timeouts[i] = v.ping_timeout
      /\ Val(rd.interval) = v.refresh_interval

\* ---- C25 (SpecLive): under fair scheduling of the loop and of update_ui,
\* for as long as is_monitoring holds: a Sample is published again and
\* again; a queue that holds a Sample is emptied again; and every publish
\* that is followed is answered by a history entry made from it or from a
\* newer Sample.
C25_PublishedInfinitelyOften == <>(~is_monitoring) \/ []<><<LivePut>>_vars
C25_QueueEmptiedAgain ==
  (data_queue # <<>>) ~> (data_queue = <<>> \/ ~is_monitoring)
C25_PublishReachesHistory ==
  (published.owed # 0) ~> (published.owed = 0 \/ ~is_monitoring)
====
